---- MODULE Spec2Model ----
(***************************************************************************)
(* heimdall-rs, common/src/ether/evm/disassemble.rs: resolution of a       *)
(* target (address, literal bytecode, file) to a hex string, the linear    *)
(* decode loop, and the two artifact writes.                               *)
(*                                                                         *)
(* A Rust String is modelled as a sequence of one-character strings.       *)
(***************************************************************************)
EXTENDS Integers, Sequences, FiniteSets, TLC

VARIABLES
    phase,             \* position of the invocation inside disassemble()
    args,              \* DisassemblerArgs of the running invocation
    cwd,               \* result of env::current_dir() for this invocation
    output_dir,        \* local `output_dir`
    contract_bytecode, \* local `contract_bytecode`
    program_counter,   \* local `program_counter`
    output,            \* local `output`, one element per push_str
    diag,              \* the logger.error diagnostic of this invocation
    calls,             \* collaborator calls made by this invocation, in order
    cache,             \* heimdall_cache contents, keyed by "contract.<address>"
    fetched            \* per cache key, the results of provider.get_code so far

vars == << phase, args, cwd, output_dir, contract_bytecode, program_counter,
           output, diag, calls, cache, fetched >>

-----------------------------------------------------------------------------
(* Bounds of the model *)

\* longest literal bytecode (in byte-pairs) the decoder specification draws
MaxBytes == 5
\* get_code replies recorded per address before no further fetch is modelled
MaxFetches == 2

-----------------------------------------------------------------------------
(* Strings *)

HexChars == { "0", "1", "2", "3", "4", "5", "6", "7", "8", "9",
              "a", "b", "c", "d", "e", "f", "A", "B", "C", "D", "E", "F" }

DecChars == { "0", "1", "2", "3", "4", "5", "6", "7", "8", "9" }

IsHex(s) == \A i \in 1..Len(s) : s[i] \in HexChars

HexVal(c) ==
    CASE c = "0" -> 0 [] c = "1" -> 1 [] c = "2" -> 2 [] c = "3" -> 3
      [] c = "4" -> 4 [] c = "5" -> 5 [] c = "6" -> 6 [] c = "7" -> 7
      [] c = "8" -> 8 [] c = "9" -> 9
      [] c \in {"a", "A"} -> 10 [] c \in {"b", "B"} -> 11
      [] c \in {"c", "C"} -> 12 [] c \in {"d", "D"} -> 13
      [] c \in {"e", "E"} -> 14 [] c \in {"f", "F"} -> 15

DecDigit(n) ==
    CASE n = 0 -> "0" [] n = 1 -> "1" [] n = 2 -> "2" [] n = 3 -> "3"
      [] n = 4 -> "4" [] n = 5 -> "5" [] n = 6 -> "6" [] n = 7 -> "7"
      [] n = 8 -> "8" [] n = 9 -> "9"

\* Display of an unsigned integer, as format!("{}", n) writes it
RECURSIVE ToDec(_)
ToDec(n) == IF n < 10 THEN << DecDigit(n) >>
            ELSE ToDec(n \div 10) \o << DecDigit(n % 10) >>

\* value of a string of decimal digits
RECURSIVE DecVal(_)
DecVal(s) == IF s = << >> THEN 0
             ELSE 10 * DecVal(SubSeq(s, 1, Len(s) - 1)) + HexVal(s[Len(s)])

\* str::parse::<u8>(): the value, or -1 for Err
ParseU8(s) ==
    IF s # << >> /\ (\A i \in 1..Len(s) : s[i] \in DecChars) /\ Len(s) <= 3
       /\ DecVal(s) <= 255
    THEN DecVal(s) ELSE -1

\* str::find: 1-based index of the first occurrence of pat in s, 0 when absent
Find(s, pat) ==
    LET hits == { i \in 1..(Len(s) - Len(pat) + 1) :
                      SubSeq(s, i, i + Len(pat) - 1) = pat }
    IN IF hits = {} THEN 0 ELSE CHOOSE i \in hits : \A j \in hits : i <= j

\* str::contains
Contains(s, pat) == Find(s, pat) # 0

\* str::replacen(pat, "", 1): the first occurrence of pat removed
Replacen1(s, pat) ==
    LET i == Find(s, pat)
    IN IF i = 0 THEN s
       ELSE SubSeq(s, 1, i - 1) \o SubSeq(s, i + Len(pat), Len(s))

\* str::replace(pat, ""): every non-overlapping occurrence of pat removed
RECURSIVE ReplaceAll(_, _)
ReplaceAll(s, pat) ==
    LET i == Find(s, pat)
    IN IF i = 0 THEN s
       ELSE SubSeq(s, 1, i - 1)
            \o ReplaceAll(SubSeq(s, i + Len(pat), Len(s)), pat)

\* [String]::join("")
RECURSIVE Join(_)
Join(ss) == IF ss = << >> THEN << >> ELSE Head(ss) \o Join(Tail(ss))

Prefix0x == << "0", "x" >>
PUSH == << "P", "U", "S", "H" >>

-----------------------------------------------------------------------------
(* Collaborators outside this file *)

\* digits of an address
AddressDigits == 40

\* constants::ADDRESS_REGEX: an optional 0x and exactly 40 hex digits
ADDRESS_REGEX(s) ==
    LET d == IF Len(s) >= 2 /\ SubSeq(s, 1, 2) = Prefix0x
             THEN SubSeq(s, 3, Len(s)) ELSE s
    IN Len(d) = AddressDigits /\ IsHex(d)

\* constants::BYTECODE_REGEX: an optional 0x and hex digits
BYTECODE_REGEX(s) ==
    LET d == IF Len(s) >= 2 /\ SubSeq(s, 1, 2) = Prefix0x
             THEN SubSeq(s, 3, Len(s)) ELSE s
    IN IsHex(d)

\* opcodes::opcode(code).name: total; PUSH0..PUSH32 are 0x5f..0x7f
opcode(code) ==
    IF Len(code) = 2 /\ IsHex(code)
    THEN LET v == 16 * HexVal(code[1]) + HexVal(code[2])
         IN CASE v >= 95 /\ v <= 127 -> PUSH \o ToDec(v - 95)
              [] v = 0 -> << "S", "T", "O", "P" >>
              [] v = 1 -> << "A", "D", "D" >>
              [] v = 2 -> << "M", "U", "L" >>
              [] v = 3 -> << "S", "U", "B" >>
              [] OTHER -> << "u", "n", "k", "n", "o", "w", "n" >>
    ELSE << "u", "n", "k", "n", "o", "w", "n" >>

-----------------------------------------------------------------------------
(* The decode loop *)

\* contract_bytecode.chars().collect().chunks(2): pairs, the last one short
\* when the length is odd
RECURSIVE Chunks2(_)
Chunks2(s) == IF Len(s) <= 2 THEN (IF s = << >> THEN << >> ELSE << s >>)
              ELSE << SubSeq(s, 1, 2) >> \o Chunks2(SubSeq(s, 3, Len(s)))

byte_array == Chunks2(contract_bytecode)

\* SliceGet with the range clamped to the slice instead of refused
SliceGet_Clamp(arr, a, b) ==
    [bytes |-> SubSeq(arr, a + 1, IF b <= Len(arr) THEN b ELSE Len(arr)),
     some |-> TRUE]

\* slice::get(a..b) with 0-based a, b: None unless a <= b <= len
SliceGet(arr, a, b) ==
    IF a <= b /\ b <= Len(arr)
    THEN [bytes |-> SubSeq(arr, a + 1, b), some |-> TRUE]
    ELSE [bytes |-> << >>, some |-> FALSE]

\* format!("{} {} {}\n", program_counter, operation.name, pushed_bytes)
FormatLine(pc, name, pushed) ==
    ToDec(pc) \o << " " >> \o name \o << " " >> \o pushed \o << "\n" >>

\* LoopBody without `program_counter += byte_count_to_push`
LoopBody_NoOperandAdvance(arr, pc) ==
    LET name == opcode(arr[pc + 1])
    IN IF Contains(name, PUSH)
       THEN LET byte_count_to_push == ParseU8(ReplaceAll(name, PUSH))
                got == SliceGet(arr, pc + 1, pc + 1 + byte_count_to_push)
            IN IF ~got.some
               THEN [pc |-> pc, brk |-> TRUE, line |-> << >>, panic |-> FALSE]
               ELSE [pc |-> pc + 1,
                     brk |-> FALSE,
                     line |-> FormatLine(pc, name, Join(got.bytes)),
                     panic |-> FALSE]
       ELSE [pc |-> pc + 1,
             brk |-> FALSE,
             line |-> FormatLine(pc, name, << >>),
             panic |-> FALSE]

\* LoopBody with the operand range starting at the opcode itself
LoopBody_SliceFromOpcode(arr, pc) ==
    LET name == opcode(arr[pc + 1])
    IN IF Contains(name, PUSH)
       THEN LET byte_count_to_push == ParseU8(ReplaceAll(name, PUSH))
                got == SliceGet(arr, pc, pc + byte_count_to_push)
            IN IF ~got.some
               THEN [pc |-> pc, brk |-> TRUE, line |-> << >>, panic |-> FALSE]
               ELSE [pc |-> pc + byte_count_to_push + 1,
                     brk |-> FALSE,
                     line |-> FormatLine(pc + byte_count_to_push, name,
                                         Join(got.bytes)),
                     panic |-> FALSE]
       ELSE [pc |-> pc + 1,
             brk |-> FALSE,
             line |-> FormatLine(pc, name, << >>),
             panic |-> FALSE]

\* One pass through the body of the while loop at position pc of arr:
\* brk is the break, panic the unwrap of the u8 parse, line the text pushed
\* to output, pc the position after the pass.
LoopBody(arr, pc) ==
    LET name == opcode(arr[pc + 1])
    IN IF Contains(name, PUSH)
       THEN LET byte_count_to_push == ParseU8(ReplaceAll(name, PUSH))
                got == SliceGet(arr, pc + 1, pc + 1 + byte_count_to_push)
            IN IF byte_count_to_push < 0
               THEN [pc |-> pc, brk |-> FALSE, line |-> << >>, panic |-> TRUE]
               ELSE IF ~got.some
               THEN [pc |-> pc, brk |-> TRUE, line |-> << >>, panic |-> FALSE]
               ELSE [pc |-> pc + byte_count_to_push + 1,
                     brk |-> FALSE,
                     line |-> FormatLine(pc + byte_count_to_push, name,
                                         Join(got.bytes)),
                     panic |-> FALSE]
       ELSE [pc |-> pc + 1,
             brk |-> FALSE,
             line |-> FormatLine(pc, name, << >>),
             panic |-> FALSE]

-----------------------------------------------------------------------------
(* Inputs and environment *)

\* an address without and one with the 0x prefix
Address1 == [i \in 1..AddressDigits |-> "a"]
Address2 == Prefix0x \o [i \in 1..AddressDigits |-> "1"]
AddressTargets == { Address1, Address2 }

LiteralTargets ==
    { << "6", "0", "0", "1", "6", "0", "0", "2", "0", "1" >>,
      << "0", "x", "6", "0", "0", "1" >>,
      << "6", "0" >> }

PathValid == << "c", ".", "e", "v", "m" >>
PathInvalid == << "b", ".", "t", "x", "t" >>
PathOdd == << "o", ".", "e", "v", "m" >>
PathMissing == << "n", "o", "n", "e" >>
FileTargets == { PathValid, PathInvalid, PathOdd, PathMissing }

Targets == AddressTargets \cup LiteralTargets \cup FileTargets

\* the files fs::read_to_string finds; Address1 also names a file
FileSystem ==
    { [contents |-> << "0", "x", "6", "0", "0", "1" >>, path |-> PathValid],
      [contents |-> << "i", "n", "v", "a", "l", "i", "d", "_",
                       "n", "o", "t", "_", "h", "e", "x" >>,
       path |-> PathInvalid],
      [contents |-> << "0", "x", "6", "0", "1" >>, path |-> PathOdd],
      [contents |-> << "0", "1" >>, path |-> Address1] }

\* --output values: absent (the default "") or an override
Outputs == { << >>, << "/", "o" >> }

\* --rpc-url values: absent (the default ""), not a URL, a URL
RpcUrls == { << >>, << "n" >>, << "h", "t", "t", "p", ":", "/", "/", "n" >> }

Cwd == << "/", "w" >>
\* env::current_dir(): Ok(dir) or Err
CwdResults == { [dir |-> Cwd, ok |-> TRUE], [dir |-> << >>, ok |-> FALSE] }

\* deployed code an endpoint can answer with (hex of the bytes)
NetCodes == { << >>, << "6", "0", "0", "1" >> }
\* provider.get_code(address, None).await: Ok(bytes) or Err
GetCodeResults == { [bytes |-> b, ok |-> TRUE] : b \in NetCodes }
                  \cup { [bytes |-> << >>, ok |-> FALSE] }

\* Bytes::to_string(): 0x and the hex digits
BytesToString(b) == Prefix0x \o b

\* Provider::<Http>::try_from(url): Ok when the string parses as a URL
ProviderTryFrom(url) ==
    Len(url) > 7 /\ SubSeq(url, 1, 7) = << "h", "t", "t", "p", ":", "/", "/" >>

\* str::parse::<Address>(): Ok for 40 hex digits after an optional 0x
ParseAddress(s) ==
    LET d == IF Len(s) >= 2 /\ SubSeq(s, 1, 2) = Prefix0x
             THEN SubSeq(s, 3, Len(s)) ELSE s
    IN Len(d) = AddressDigits /\ IsHex(d)

\* format!("contract.{}", &args.target)
CacheKey(target) ==
    << "c", "o", "n", "t", "r", "a", "c", "t", "." >> \o target

CacheKeys == { CacheKey(t) : t \in AddressTargets }

None == [some |-> FALSE, value |-> << >>]
Some(v) == [some |-> TRUE, value |-> v]

\* heimdall_cache::read_cache(key)
read_cache(c, key) == c[key]
\* heimdall_cache::store_cache(key, value, None)
store_cache(c, key, value) == [c EXCEPT ![key] = Some(value)]

\* fs::read_to_string(path)
read_to_string(path) ==
    IF \E f \in FileSystem : f.path = path
    THEN Some((CHOOSE f \in FileSystem : f.path = path).contents)
    ELSE None

\* one collaborator call, as recorded in `calls`
Call(op, ok, path, data) == [path |-> path,
                             ok |-> ok,
                             op |-> op,
                             data |-> data]

NoArgs == [output |-> << >>, target |-> << >>, rpc_url |-> << >>]

-----------------------------------------------------------------------------
(* Resolution *)

\* lines 55-68: the base output directory; ok is FALSE on the exit(1)
BaseOutputDir(a, c) ==
    IF a.output = << >>
    THEN IF c.ok
         THEN [dir |-> c.dir \o << "/", "o", "u", "t", "p", "u", "t" >>,
               ok |-> TRUE]
         ELSE [dir |-> << >>, ok |-> FALSE]
    ELSE [dir |-> a.output, ok |-> TRUE]

\* Classify with the bytecode pattern tested before the address pattern
Classify_BytecodeFirst(target) ==
    IF BYTECODE_REGEX(target) THEN "bytecode"
    ELSE IF ADDRESS_REGEX(target) THEN "address"
    ELSE "file"

\* lines 71, 133, 136: the branch taken for a target
Classify(target) ==
    IF ADDRESS_REGEX(target) THEN "address"
    ELSE IF BYTECODE_REGEX(target) THEN "bytecode"
    ELSE "file"

\* PushAddress without the comparison with args.output
PushAddress_Always(dir, a) == dir \o << "/" >> \o a.target

\* lines 74-76
PushAddress(dir, a) ==
    IF dir # a.output THEN dir \o << "/" >> \o a.target ELSE dir

\* lines 139-141
PushLocal(dir, a) ==
    IF dir # a.output THEN dir \o << "/", "l", "o", "c", "a", "l" >> ELSE dir

\* AddressPrelude without the rpc_url.is_empty() check
AddressPrelude_NoRpcCheck(a, entry) ==
    IF entry.some
    THEN [calls |-> << Call("read_cache", TRUE, << >>, << >>) >>,
          kind |-> "hit"]
    ELSE IF ~ProviderTryFrom(a.rpc_url)
    THEN [calls |-> << Call("read_cache", FALSE, << >>, << >>),
                       Call("try_from", FALSE, << >>, << >>) >>,
          kind |-> "connect"]
    ELSE [calls |-> << Call("read_cache", FALSE, << >>, << >>),
                       Call("try_from", TRUE, << >>, << >>),
                       Call("get_code", TRUE, << >>, << >>) >>,
          kind |-> "fetch"]

\* lines 88-115: what the async block does up to the get_code call
AddressPrelude(a, entry) ==
    IF entry.some
    THEN [calls |-> << Call("read_cache", TRUE, << >>, << >>) >>,
          kind |-> "hit"]
    ELSE IF a.rpc_url = << >>
    THEN [calls |-> << Call("read_cache", FALSE, << >>, << >>) >>,
          kind |-> "no_rpc"]
    ELSE IF ~ProviderTryFrom(a.rpc_url)
    THEN [calls |-> << Call("read_cache", FALSE, << >>, << >>),
                       Call("try_from", FALSE, << >>, << >>) >>,
          kind |-> "connect"]
    ELSE IF ~ParseAddress(a.target)
    THEN [calls |-> << Call("read_cache", FALSE, << >>, << >>),
                       Call("try_from", TRUE, << >>, << >>) >>,
          kind |-> "parse"]
    ELSE [calls |-> << Call("read_cache", FALSE, << >>, << >>),
                       Call("try_from", TRUE, << >>, << >>),
                       Call("get_code", TRUE, << >>, << >>) >>,
          kind |-> "fetch"]

\* lines 127-129: the string cached and returned for fetched bytes
FetchedBytecode(bytes) == Replacen1(BytesToString(bytes), Prefix0x)

\* CacheAfterFetch without the store_cache call
CacheAfterFetch_NoStore(c, key, bytes) == c

\* line 127
CacheAfterFetch(c, key, bytes) == store_cache(c, key, FetchedBytecode(bytes))

\* lines 144-158: the outcome of the file branch for a read result
FileOutcome(r) ==
    IF ~r.some THEN [kind |-> "open_file", bytecode |-> << >>]
    ELSE IF BYTECODE_REGEX(r.value) /\ Len(r.value) % 2 = 0
    THEN [kind |-> "none", bytecode |-> Replacen1(r.value, Prefix0x)]
    ELSE [kind |-> "invalid_file", bytecode |-> << >>]

-----------------------------------------------------------------------------
(* Actions *)

Init ==
    /\ phase = "idle"
    /\ args = NoArgs
    /\ cwd = [dir |-> Cwd, ok |-> TRUE]
    /\ output_dir = << >>
    /\ contract_bytecode = << >>
    /\ program_counter = 0
    /\ output = << >>
    /\ diag = "none"
    /\ calls = << >>
    /\ cache = [k \in CacheKeys |-> None]
    /\ fetched = [k \in CacheKeys |-> << >>]

\* A process starts disassemble(a) and runs to the classification (48-70)
Invoke(a, c) ==
    /\ phase \in { "idle", "done", "aborted" }
    /\ a.output # << >> => c.ok
    /\ (a.target \in AddressTargets /\ ~cache[CacheKey(a.target)].some)
          => Len(fetched[CacheKey(a.target)]) < MaxFetches
    /\ args' = a
    /\ cwd' = c
    /\ LET base == BaseOutputDir(a, c)
       IN /\ output_dir' = base.dir
          /\ phase' = IF base.ok THEN "classify" ELSE "aborted"
          /\ diag' = IF base.ok THEN "none" ELSE "no_cwd"
    /\ contract_bytecode' = << >>
    /\ program_counter' = 0
    /\ output' = << >>
    /\ calls' = << >>
    /\ UNCHANGED << cache, fetched >>

\* The address branch up to the await of get_code (71-118)
ResolveAddress ==
    /\ phase = "classify"
    /\ Classify(args.target) = "address"
    /\ output_dir' = PushAddress(output_dir, args)
    /\ LET r == AddressPrelude(args, read_cache(cache, CacheKey(args.target)))
       IN /\ calls' = calls \o r.calls
          /\ phase' = CASE r.kind = "hit" -> "decode"
                        [] r.kind = "fetch" -> "fetch"
                        [] OTHER -> "aborted"
          /\ diag' = IF r.kind \in { "hit", "fetch" } THEN "none" ELSE r.kind
          /\ contract_bytecode' =
                IF r.kind = "hit"
                THEN read_cache(cache, CacheKey(args.target)).value
                ELSE contract_bytecode
    /\ UNCHANGED << args, cwd, program_counter, output, cache, fetched >>

\* get_code completes (118-130)
GetCodeReply(r) ==
    /\ phase = "fetch"
    /\ fetched' = [fetched EXCEPT ![CacheKey(args.target)] = Append(@, r)]
    /\ IF r.ok
       THEN /\ cache' = CacheAfterFetch(cache, CacheKey(args.target), r.bytes)
            /\ calls' = Append(calls, Call("store_cache", TRUE, << >>,
                                           FetchedBytecode(r.bytes)))
            /\ contract_bytecode' = FetchedBytecode(r.bytes)
            /\ phase' = "decode"
            /\ diag' = "none"
       ELSE /\ phase' = "aborted"
            /\ diag' = "fetch"
            /\ UNCHANGED << cache, calls, contract_bytecode >>
    /\ UNCHANGED << args, cwd, output_dir, program_counter, output >>

\* The literal branch (133-135)
ResolveBytecode ==
    /\ phase = "classify"
    /\ Classify(args.target) = "bytecode"
    /\ contract_bytecode' = args.target
    /\ phase' = "decode"
    /\ UNCHANGED << args, cwd, output_dir, program_counter, output, diag,
                    calls, cache, fetched >>

\* ResolveFile without the process::exit after the diagnostics
ResolveFile_NoExit ==
    /\ phase = "classify"
    /\ Classify(args.target) = "file"
    /\ output_dir' = PushLocal(output_dir, args)
    /\ LET r == read_to_string(args.target)
           o == FileOutcome(r)
       IN /\ calls' = Append(calls, Call("read_to_string", r.some,
                                         args.target, << >>))
          /\ diag' = o.kind
          /\ phase' = "decode"
          /\ contract_bytecode' = IF r.some THEN r.value ELSE << >>
    /\ UNCHANGED << args, cwd, program_counter, output, cache, fetched >>

\* The file branch (136-159)
ResolveFile ==
    /\ phase = "classify"
    /\ Classify(args.target) = "file"
    /\ output_dir' = PushLocal(output_dir, args)
    /\ LET r == read_to_string(args.target)
           o == FileOutcome(r)
       IN /\ calls' = Append(calls, Call("read_to_string", r.some,
                                         args.target, << >>))
          /\ diag' = o.kind
          /\ phase' = IF o.kind = "none" THEN "decode" ELSE "aborted"
          /\ contract_bytecode' = o.bytecode
    /\ UNCHANGED << args, cwd, program_counter, output, cache, fetched >>

\* One pass through the while loop (171-191)
DecodeStep ==
    /\ phase = "decode"
    /\ program_counter < Len(byte_array)
    /\ LET r == LoopBody(byte_array, program_counter)
       IN /\ phase' = IF r.panic THEN "panicked"
                      ELSE IF r.brk THEN "write" ELSE "decode"
          /\ program_counter' = r.pc
          /\ output' = IF r.brk \/ r.panic THEN output
                       ELSE Append(output, r.line)
    /\ UNCHANGED << args, cwd, output_dir, contract_bytecode, diag, calls,
                    cache, fetched >>

\* The while condition fails (171, 193)
DecodeEnd ==
    /\ phase = "decode"
    /\ ~(program_counter < Len(byte_array))
    /\ phase' = "write"
    /\ UNCHANGED << args, cwd, output_dir, contract_bytecode, program_counter,
                    output, diag, calls, cache, fetched >>

\* The two write_file calls and the return (195-203)
WriteArtifacts ==
    /\ phase = "write"
    /\ calls' = calls \o
          << Call("write_file", TRUE,
                  output_dir \o << "/", "b", "y", "t", "e", "c", "o", "d", "e",
                                   ".", "e", "v", "m" >>,
                  contract_bytecode),
             Call("write_file", TRUE,
                  output_dir \o << "/", "d", "i", "s", "a", "s", "s", "e", "m",
                                   "b", "l", "e", "d", ".", "a", "s", "m" >>,
                  Join(output)) >>
    /\ phase' = "done"
    /\ UNCHANGED << args, cwd, output_dir, contract_bytecode, program_counter,
                    output, diag, cache, fetched >>

Next ==
    \/ \E t \in Targets, o \in Outputs, u \in RpcUrls, c \in CwdResults :
          Invoke([output |-> o, target |-> t, rpc_url |-> u], c)
    \/ ResolveAddress
    \/ \E r \in GetCodeResults : GetCodeReply(r)
    \/ ResolveBytecode
    \/ ResolveFile
    \/ DecodeStep
    \/ DecodeEnd
    \/ WriteArtifacts

Spec == Init /\ [][Next]_vars

-----------------------------------------------------------------------------
(* The decoder alone, over every short literal target *)

DecodeBytes == { << "0", "1" >>, << "0", "2" >>, << "5", "f" >>,
                 << "6", "0" >>, << "6", "1" >> }

\* byte-pairs, then nothing or a lone digit (an odd-length literal)
DecodeInputs ==
    { Join(bs) \o n :
        bs \in UNION { [1..k -> DecodeBytes] : k \in 0..MaxBytes },
        n \in { << >>, << "6" >> } } \ { << >> }

\* the state ResolveBytecode leaves for a literal target
DecodeInit ==
    /\ phase = "decode"
    /\ \E t \in DecodeInputs :
          /\ args = [output |-> << >>, target |-> t, rpc_url |-> << >>]
          /\ contract_bytecode = t
    /\ cwd = [dir |-> Cwd, ok |-> TRUE]
    /\ output_dir = BaseOutputDir(args, cwd).dir
    /\ program_counter = 0
    /\ output = << >>
    /\ diag = "none"
    /\ calls = << >>
    /\ cache = [k \in CacheKeys |-> None]
    /\ fetched = [k \in CacheKeys |-> << >>]

DecodeNext == DecodeStep \/ DecodeEnd \/ WriteArtifacts

DecodeSpec == DecodeInit /\ [][DecodeNext]_vars

-----------------------------------------------------------------------------
(* Reading the listing back *)

\* the text of a listing line before its first space
LineOffsetText(line) == SubSeq(line, 1, Find(line, << " " >>) - 1)
LineAfterOffset(line) == SubSeq(line, Find(line, << " " >>) + 1, Len(line))
\* the offset a listing line shows
LineOffset(line) == DecVal(LineOffsetText(line))
\* the mnemonic a listing line shows
LineName(line) ==
    SubSeq(LineAfterOffset(line), 1, Find(LineAfterOffset(line), << " " >>) - 1)
\* the immediate a listing line shows, without the line feed
LineImmediate(line) ==
    SubSeq(LineAfterOffset(line), Find(LineAfterOffset(line), << " " >>) + 1,
           Len(LineAfterOffset(line)) - 1)
\* byte-pairs in the immediate of a listing line
LineImmediatePairs(line) == (Len(LineImmediate(line)) + 1) \div 2

\* sum of (1 + immediate byte-pairs) over the first k lines of the listing
RECURSIVE Advance(_, _)
Advance(lines, k) ==
    IF k = 0 THEN 0
    ELSE Advance(lines, k - 1) + 1 + LineImmediatePairs(lines[k])

IsPushName(name) == Len(name) > 4 /\ SubSeq(name, 1, 4) = PUSH
\* operand length a mnemonic declares: its numeric suffix, 0 for a non-push
OperandLength(name) ==
    IF IsPushName(name) THEN DecVal(SubSeq(name, 5, Len(name))) ELSE 0

CallOps == { calls[i].op : i \in 1..Len(calls) }
Written == { i \in 1..Len(calls) : calls[i].op = "write_file" }
Resolved == phase \in { "decode", "write", "done" }

-----------------------------------------------------------------------------
(* Claims about the decode loop, checked under DecodeSpec *)

\* C1: for a normalized input (hex digit pairs), the offset shown on every
\* listing line is the position at which the opcode of that line was looked
\* up, i.e. the sum of the advances of the lines before it (0, 2, 4 for
\* 6001600201).
C1_OffsetIsOpcodePosition ==
    (IsHex(contract_bytecode) /\ Len(contract_bytecode) % 2 = 0) =>
        \A i \in 1..Len(output) :
            LineOffset(output[i]) = Advance(output, i - 1)

\* C2: a pass of the loop that finds a push-class opcode at position p whose
\* operand length exceeds the byte-pairs after p ends the loop, emits no
\* line, raises no error and leaves the position at p.
C2_TruncationStopsSilently ==
    [][ (/\ phase = "decode"
         /\ program_counter < Len(byte_array)
         /\ IsPushName(opcode(byte_array[program_counter + 1]))
         /\ OperandLength(opcode(byte_array[program_counter + 1]))
               > Len(byte_array) - (program_counter + 1))
        => (/\ phase' = "write"
            /\ output' = output
            /\ program_counter' = program_counter
            /\ diag' = "none") ]_vars

\* C2 witness: input 60 has ended the loop with no line and position 0
C2_Witness ==
    /\ contract_bytecode = << "6", "0" >>
    /\ phase = "write"
    /\ output = << >>
    /\ program_counter = 0
    /\ diag = "none"

\* C3: during and after the loop the position never exceeds the number of
\* byte-pairs of the input and equals the sum over the emitted lines of
\* (1 + immediate byte-pairs).
C3_PositionIsSumOfAdvances ==
    Resolved =>
        /\ program_counter <= Len(byte_array)
        /\ program_counter = Advance(output, Len(output))

\* C3 witness: a loop ended by truncation after a push with two operand
\* byte-pairs and a further line were emitted
C3_Witness ==
    /\ phase = "write"
    /\ program_counter < Len(byte_array)
    /\ Len(output) >= 2
    /\ \E i \in 1..Len(output) : LineImmediatePairs(output[i]) = 2

\* C10: a pass that emits a line for the opcode at p moves the position to
\* p + 1 + n (n the numeric suffix of a push mnemonic, 0 otherwise) and the
\* immediate is the n byte-pairs at p+1..p+n joined; a non-push opcode always
\* emits one line and advances by 1.
C10_EmitAdvancesByOnePlusOperand ==
    [][ (phase = "decode" /\ program_counter < Len(byte_array)) =>
          LET p == program_counter
              name == opcode(byte_array[p + 1])
              n == OperandLength(name)
          IN /\ Len(output') = Len(output) + 1 =>
                  /\ program_counter' = p + 1 + n
                  /\ p + 1 + n <= Len(byte_array)
                  /\ SubSeq(output', 1, Len(output)) = output
                  /\ LineName(output'[Len(output')]) = name
                  /\ LineImmediate(output'[Len(output')])
                        = Join(SubSeq(byte_array, p + 2, p + 1 + n))
             /\ ~IsPushName(name) =>
                  /\ Len(output') = Len(output) + 1
                  /\ program_counter' = p + 1 ]_vars

\* C10 witness: a PUSH2 with its two byte-pairs and a non-push line emitted
C10_Witness ==
    /\ \E i \in 1..Len(output) :
          /\ LineName(output[i]) = << "P", "U", "S", "H", "2" >>
          /\ Len(LineImmediate(output[i])) = 4
    /\ \E i \in 1..Len(output) : LineName(output[i]) = << "A", "D", "D" >>

-----------------------------------------------------------------------------
(* Claims about resolution and persistence, checked under Spec *)

IsAddressRun == Classify(args.target) = "address" /\ calls # << >>
OutputDirSuffix ==
    CASE Classify(args.target) = "address" -> << "/" >> \o args.target
      [] Classify(args.target) = "file" -> << "/", "l", "o", "c", "a", "l" >>
      [] OTHER -> << >>
BytecodeEvm == << "/", "b", "y", "t", "e", "c", "o", "d", "e", ".", "e", "v", "m" >>
DisassembledAsm ==
    << "/", "d", "i", "s", "a", "s", "s", "e", "m", "b", "l", "e", "d", ".",
       "a", "s", "m" >>
\* successful get_code replies recorded for a cache key
Successes(k) == { i \in 1..Len(fetched[k]) : fetched[k][i].ok }

\* C4 as stated: an address target with an empty rpc_url always aborts with
\* the configuration error, with no network access and no bytecode, whatever
\* the cache holds.
C4_EmptyRpcAlwaysAborts ==
    (IsAddressRun /\ args.rpc_url = << >>) =>
        /\ phase = "aborted"
        /\ diag = "no_rpc"
        /\ CallOps \subseteq { "read_cache" }
        /\ contract_bytecode = << >>

\* C4 amended: an address target with an empty rpc_url whose cache lookup
\* misses aborts with the configuration error; the cache read is the only
\* collaborator call, and no bytecode, listing or artifact is produced.
C4_EmptyRpcAbortsOnCacheMiss ==
    (IsAddressRun /\ args.rpc_url = << >> /\ ~calls[1].ok) =>
        /\ phase = "aborted"
        /\ diag = "no_rpc"
        /\ calls = << Call("read_cache", FALSE, << >>, << >>) >>
        /\ contract_bytecode = << >>
        /\ output = << >>

\* C4 witness: the abort, after an earlier invocation of the other address
\* filled the cache
C4_Witness ==
    /\ IsAddressRun /\ args.rpc_url = << >> /\ ~calls[1].ok
    /\ phase = "aborted"
    /\ \E k \in CacheKeys : cache[k].some

\* C5 as stated: at most one get_code is ever issued for an address.
C5_AtMostOneFetchIssued ==
    \A k \in CacheKeys : Len(fetched[k]) <= 1

\* C5 amended: for an address at most one get_code succeeds (failed ones
\* may precede it, each aborting its invocation); the successful one stores
\* the code without its 0x under contract.<address>, after which no
\* invocation issues a network call for that address and each resolves to
\* the stored byte sequence.
C5_AtMostOneFetchSucceeds ==
    /\ \A k \in CacheKeys :
          /\ Cardinality(Successes(k)) <= 1
          /\ Successes(k) \subseteq { Len(fetched[k]) }
          /\ cache[k].some <=> Successes(k) # {}
          /\ cache[k].some =>
                cache[k].value
                   = Replacen1(BytesToString(fetched[k][Len(fetched[k])].bytes),
                               Prefix0x)
    /\ phase = "fetch" => ~cache[CacheKey(args.target)].some
    /\ (IsAddressRun /\ Resolved) =>
          /\ cache[CacheKey(args.target)].some
          /\ contract_bytecode = cache[CacheKey(args.target)].value
          /\ calls[1].ok => CallOps \subseteq { "read_cache", "write_file" }

\* C5 witness: a warm-cache invocation after a failed and a successful fetch
C5_Witness ==
    /\ IsAddressRun /\ phase = "done" /\ calls[1].ok
    /\ Len(fetched[CacheKey(args.target)]) = 2
    /\ contract_bytecode = << "6", "0", "0", "1" >>

\* C6: the byte sequence handed to the decoder is hex digit pairs: no 0x
\* prefix, even length.
C6_ResolvedBytecodeIsNormalized ==
    Resolved =>
        /\ IsHex(contract_bytecode)
        /\ Len(contract_bytecode) % 2 = 0

\* C7 as stated: the artifacts go to the base directory (override or
\* <cwd>/output) followed by /<address>, /local or nothing, by variant.
C7_VariantSubdirAlways ==
    \A i \in Written :
        calls[i].path \in
            { BaseOutputDir(args, cwd).dir \o OutputDirSuffix \o f :
                f \in { BytecodeEvm, DisassembledAsm } }

\* C7 amended: with the default base <cwd>/output the artifacts go to
\* <base>/<address>, <base>/local or <base> by variant; with an explicit
\* override they go to the override itself for every variant.
C7_VariantSubdirOnlyForDefaultBase ==
    /\ phase = "done" => Cardinality(Written) = 2
    /\ \A i \in Written :
          calls[i].path \in
             { (IF args.output = << >>
                THEN cwd.dir \o << "/", "o", "u", "t", "p", "u", "t" >>
                     \o OutputDirSuffix
                ELSE args.output) \o f :
                 f \in { BytecodeEvm, DisassembledAsm } }

\* C7 witness: an address target written under an explicit override
C7_Witness ==
    /\ phase = "done" /\ IsAddressRun /\ args.output # << >>
    /\ Cardinality(Written) = 2

\* C8: once a fatal condition has been reported the invocation is aborted
\* with nothing decoded and nothing written; a file target that is missing
\* or whose contents are not even-length bytecode reports one; artifacts
\* are written only after the loop has ended.
C8_NoArtifactsOnAbort ==
    /\ diag # "none" =>
          /\ phase = "aborted"
          /\ Written = {}
          /\ output = << >>
          /\ program_counter = 0
    /\ (/\ Classify(args.target) = "file"
        /\ calls # << >>
        /\ \/ ~read_to_string(args.target).some
           \/ ~BYTECODE_REGEX(read_to_string(args.target).value)
           \/ Len(read_to_string(args.target).value) % 2 # 0)
          => (phase = "aborted" /\ diag \in { "open_file", "invalid_file" })
    /\ Written # {} => (phase = "done" /\ diag = "none")

\* C8 witness: the file holding invalid_not_hex has been rejected
C8_Witness ==
    /\ args.target = PathInvalid
    /\ phase = "aborted"
    /\ diag = "invalid_file"
    /\ Len(calls) = 1

\* C9: a target matching the address pattern goes through the cache (then
\* the network) and is never read as a file; a literal makes no cache,
\* network or file call; anything else is read as a file and makes no cache
\* or network call.
C9_ClassificationPrecedence ==
    (phase \notin { "idle", "classify" } /\ diag # "no_cwd") =>
        /\ ADDRESS_REGEX(args.target) =>
              /\ calls # << >>
              /\ calls[1].op = "read_cache"
              /\ "read_to_string" \notin CallOps
        /\ (~ADDRESS_REGEX(args.target) /\ BYTECODE_REGEX(args.target)) =>
              CallOps \subseteq { "write_file" }
        /\ (~ADDRESS_REGEX(args.target) /\ ~BYTECODE_REGEX(args.target)) =>
              /\ calls # << >>
              /\ calls[1].op = "read_to_string"
              /\ CallOps \subseteq { "read_to_string", "write_file" }

\* C9 witness: an address that also matches the bytecode pattern and names
\* an existing file has been resolved from the network and written
C9_Witness ==
    /\ args.target = Address1
    /\ BYTECODE_REGEX(args.target)
    /\ read_to_string(args.target).some
    /\ phase = "done"
    /\ "get_code" \in CallOps

====
